---- MODULE Spec2Model ----
(***************************************************************************)
(* The phonebook REST service of src/main.rs: four axum handlers that run  *)
(* parameterised SQL statements against one "contacts" table.              *)
(*                                                                         *)
(* Every SQL statement is one atomic step of the database.  update_contact *)
(* runs two statements (SELECT, then UPDATE) with an await between them,   *)
(* so it is two steps and other handlers may run in between.               *)
(*                                                                         *)
(* Text values are sequences of character codes, timestamps are readings   *)
(* of the database clock, which never runs backwards but may give the same *)
(* reading to two statements.                                              *)
(***************************************************************************)
EXTENDS Integers, Sequences, FiniteSets, TLC

\* ------------------------------------------------------------------ bounds
MaxClock == 1
MaxRequests == 2

Tasks == {1, 2}
Uuids == {1, 2}
FirstNames == {<<1>>, <<1, 2>>}
LastNames == {<<1>>, <<1, 2>>}
Phones == {<<5>>, <<5, 6>>}

\* ------------------------------------------------------------ status codes
OK == 200
CREATED == 201
NOT_FOUND == 404
INTERNAL_SERVER_ERROR == 500

\* --------------------------------------------------------------- Option<T>
None == <<>>
Some(v) == <<v>>
Option(S) == {None} \cup {Some(v) : v \in S}

\* ------------------------------------------------------------------- types
Contact(uuid, fn, ln, ph, c, u) ==
    [id |-> uuid, first_name |-> fn, last_name |-> ln, phone |-> ph,
     created_at |-> c, updated_at |-> u]

CreateContact == [first_name : FirstNames, last_name : LastNames, phone : Phones]

UpdateContact ==
    [first_name : Option({<<1, 2>>}), last_name : Option({<<1>>}),
     phone : Option({<<5, 6>>})]

SearchQuery == [phone : Phones]

\* sqlx::Error values a statement can return besides success
TransientErrors == {"Io"}

\* e.to_string() of a sqlx::Error
to_string(e) ==
    CASE e = "RowNotFound" -> "no rows returned by a query that expected to return at least one row"
      [] e = "Database" -> "error returned from database"
      [] OTHER -> "error communicating with database"

NoPayload == [first_name |-> None, last_name |-> None, phone |-> None]

\* a request as the router hands it to a handler: the handler, the id of the
\* path and the fields of the body or query
Request(op, uuid, p) ==
    [op |-> op, id |-> uuid, first_name |-> p.first_name,
     last_name |-> p.last_name, phone |-> p.phone]

\* a response: the request it answers, the status, the rows of a JSON body
\* and the text of a plain-text body
Response(request, status, body, message) ==
    [req |-> request, status |-> status, body |-> body, message |-> message]

NoResponse == Response(Request("none", 0, NoPayload), 0, <<>>, "")

\* contacts: the rows of the table; clock: the database clock;
\* pc, id, payload, contact: where each handler task stands in update_contact
\* and its locals; reply: the response sent last; nreq: requests taken so far
VARIABLES contacts, clock, pc, id, payload, contact, reply, nreq

vars == <<contacts, clock, pc, id, payload, contact, reply, nreq>>

\* --------------------------------------------------------------- the table
\* Column defaults of the contacts table: both timestamps default to NOW().
ColumnDefaults(now) == [created_at |-> now, updated_at |-> now]

\* The primary key on id rejects a second row with the same id.
PrimaryKeyViolation(tbl, uuid) == \E row \in tbl : row.id = uuid

\* the INSERT with $2 and $3 bound the wrong way round
InsertRow_SwappedNames(uuid, fn, ln, ph, now) ==
    Contact(uuid, ln, fn, ph, ColumnDefaults(now).created_at,
            ColumnDefaults(now).updated_at)

\* INSERT INTO contacts (id, first_name, last_name, phone) VALUES ($1..$4)
InsertRow(uuid, fn, ln, ph, now) ==
    Contact(uuid, fn, ln, ph, ColumnDefaults(now).created_at,
            ColumnDefaults(now).updated_at)

\* SELECT * FROM contacts WHERE id = $1
SelectById(tbl, uuid) == {row \in tbl : row.id = uuid}

\* the search with a prefix match (phone LIKE $1 || '%') instead of equality
SelectByPhone_Prefix(tbl, ph) ==
    {row \in tbl : Len(ph) <= Len(row.phone)
                   /\ SubSeq(row.phone, 1, Len(ph)) = ph}

\* SELECT * FROM contacts WHERE phone = $1
SelectByPhone(tbl, ph) == {row \in tbl : row.phone = ph}

\* the UPDATE without "phone = $3" in its SET list
UpdateRows_KeepsPhone(tbl, fn, ln, ph, uuid, now) ==
    {IF row.id = uuid
        THEN [row EXCEPT !.first_name = fn, !.last_name = ln, !.updated_at = now]
        ELSE row : row \in tbl}

\* the UPDATE stamping created_at instead of updated_at
UpdateRows_WrongColumn(tbl, fn, ln, ph, uuid, now) ==
    {IF row.id = uuid
        THEN [row EXCEPT !.first_name = fn, !.last_name = ln, !.phone = ph,
                         !.created_at = now]
        ELSE row : row \in tbl}

\* the UPDATE without its WHERE clause
UpdateRows_NoWhere(tbl, fn, ln, ph, uuid, now) ==
    {[row EXCEPT !.first_name = fn, !.last_name = ln, !.phone = ph,
                 !.updated_at = now] : row \in tbl}

\* UPDATE contacts SET first_name = $1, last_name = $2, phone = $3,
\*                     updated_at = NOW() WHERE id = $4
UpdateRows(tbl, fn, ln, ph, uuid, now) ==
    {IF row.id = uuid
        THEN [row EXCEPT !.first_name = fn, !.last_name = ln, !.phone = ph,
                         !.updated_at = now]
        ELSE row : row \in tbl}

\* text comparison a < b, code point by code point, a proper prefix first
TextLess(a, b) ==
    \E k \in 0..Len(a) :
        /\ k <= Len(b)
        /\ \A i \in 1..k : a[i] = b[i]
        /\ \/ (k = Len(a) /\ k < Len(b))
           \/ (k < Len(a) /\ k < Len(b) /\ a[k + 1] < b[k + 1])

\* ORDER BY first_name alone
OrderByLeq_FirstNameOnly(x, y) == ~TextLess(y.first_name, x.first_name)

\* ORDER BY first_name, last_name: x may stand before y
OrderByLeq(x, y) ==
    \/ TextLess(x.first_name, y.first_name)
    \/ (x.first_name = y.first_name /\ ~TextLess(y.last_name, x.last_name))

\* every order in which the database may return the rows of a set
Orderings(rows) ==
    {s \in [1..Cardinality(rows) -> rows] :
        \A i, j \in 1..Cardinality(rows) : i # j => s[i] # s[j]}

\* SELECT * FROM contacts ORDER BY first_name, last_name
\* (rows with equal keys come in any order)
SelectAllOrdered(tbl) ==
    {s \in Orderings(tbl) :
        \A i \in 1..(Cardinality(tbl) - 1) : OrderByLeq(s[i], s[i + 1])}

\* fetch_one: the first row of the result, RowNotFound when there is none;
\* any statement may also fail with a transient error and then has no effect
FetchOne(rows) ==
    {[err |-> e, row |-> None] : e \in TransientErrors}
    \cup (IF rows = {}
             THEN {[err |-> "RowNotFound", row |-> None]}
             ELSE {[err |-> "Ok", row |-> Some(x)] : x \in rows})

\* fetch_all: all rows of the result
FetchAll(results) ==
    {[err |-> e, rows |-> <<>>] : e \in TransientErrors}
    \cup {[err |-> "Ok", rows |-> s] : s \in results}

\* ---------------------------------------------------------- error mapping
\* map_err of list_contacts, create_contact, search and the UPDATE statement
StorageError(request, e) ==
    Response(request, INTERNAL_SERVER_ERROR, <<>>, to_string(e))

\* the map_err of the SELECT without its RowNotFound arm
ReadError_AllStorage(request, e) ==
    Response(request, INTERNAL_SERVER_ERROR, <<>>, to_string(e))

\* the map_err of the SELECT answering 404 to every error
ReadError_AllNotFound(request, e) ==
    Response(request, NOT_FOUND, <<>>, "Contact not found")

\* map_err of the SELECT in update_contact
ReadError(request, e) ==
    IF e = "RowNotFound"
        THEN Response(request, NOT_FOUND, <<>>, "Contact not found")
        ELSE Response(request, INTERNAL_SERVER_ERROR, <<>>, to_string(e))

\* the merge without the last_name assignment
ApplyPayload_SkipsLastName(row, p) ==
    [row EXCEPT
        !.first_name = IF p.first_name # None THEN p.first_name[1] ELSE @,
        !.phone = IF p.phone # None THEN p.phone[1] ELSE @]

\* the three "if let Some(..) = payload.." assignments of update_contact
ApplyPayload(row, p) ==
    [row EXCEPT
        !.first_name = IF p.first_name # None THEN p.first_name[1] ELSE @,
        !.last_name = IF p.last_name # None THEN p.last_name[1] ELSE @,
        !.phone = IF p.phone # None THEN p.phone[1] ELSE @]

\* -------------------------------------------------------------------- Init
\* contacts the database may already hold when the service starts: the table
\* outlives the process, the service only connects to it
StoredRows ==
    {Contact(1, <<1>>, <<1>>, <<5>>, 0, 0), Contact(2, <<1>>, <<1, 2>>, <<5>>, 0, 0)}

Init ==
    /\ contacts \in SUBSET StoredRows
    /\ clock = 0
    /\ pc = [r \in Tasks |-> "idle"]
    /\ id = [r \in Tasks |-> 0]
    /\ payload = [r \in Tasks |-> NoPayload]
    /\ contact = [r \in Tasks |-> None]
    /\ reply = NoResponse
    /\ nreq = 0

\* the database clock advances
Tick ==
    /\ clock < MaxClock
    /\ clock' = clock + 1
    /\ UNCHANGED <<contacts, pc, id, payload, contact, reply, nreq>>

\* a task takes the next request
Accept(r) ==
    /\ pc[r] = "idle"
    /\ nreq < MaxRequests
    /\ nreq' = nreq + 1

\* GET /contacts
list_contacts(r) ==
    /\ Accept(r)
    /\ LET request == Request("list", 0, NoPayload)
       IN \E out \in FetchAll(SelectAllOrdered(contacts)) :
             reply' = IF out.err = "Ok"
                         THEN Response(request, OK, out.rows, "")
                         ELSE StorageError(request, out.err)
    /\ UNCHANGED <<contacts, clock, pc, id, payload, contact>>

\* POST /contacts
create_contact(r, p) ==
    /\ Accept(r)
    /\ \E uuid \in Uuids :
          LET request == Request("create", 0,
                                 [first_name |-> Some(p.first_name),
                                  last_name |-> Some(p.last_name),
                                  phone |-> Some(p.phone)])
              row == InsertRow(uuid, p.first_name, p.last_name, p.phone, clock)
              results == IF PrimaryKeyViolation(contacts, uuid)
                            THEN {[err |-> "Database", row |-> None]}
                            ELSE FetchOne({row})
          IN \E out \in results :
                IF out.err = "Ok"
                    THEN /\ contacts' = contacts \cup {row}
                         /\ reply' = Response(request, CREATED, out.row, "")
                    ELSE /\ contacts' = contacts
                         /\ reply' = StorageError(request, out.err)
    /\ UNCHANGED <<clock, pc, id, payload, contact>>

\* PUT /contacts/:id, up to the await of the SELECT and the merge of the payload
update_contact_read(r, i, p) ==
    /\ Accept(r)
    /\ \E out \in FetchOne(SelectById(contacts, i)) :
          IF out.err = "Ok"
              THEN /\ pc' = [pc EXCEPT ![r] = "write"]
                   /\ id' = [id EXCEPT ![r] = i]
                   /\ payload' = [payload EXCEPT ![r] = p]
                   /\ contact' = [contact EXCEPT ![r] =
                                     Some(ApplyPayload(out.row[1], p))]
                   /\ reply' = reply
              ELSE /\ reply' = ReadError(Request("update", i, p), out.err)
                   /\ UNCHANGED <<pc, id, payload, contact>>
    /\ UNCHANGED <<contacts, clock>>

\* PUT /contacts/:id, the UPDATE statement and the response
update_contact_write(r) ==
    /\ pc[r] = "write"
    /\ LET request == Request("update", id[r], payload[r])
           c == contact[r][1]
           tbl == UpdateRows(contacts, c.first_name, c.last_name, c.phone,
                             id[r], clock)
       IN \E out \in FetchOne(SelectById(tbl, id[r])) :
             /\ contacts' = IF out.err \in TransientErrors THEN contacts ELSE tbl
             /\ reply' = IF out.err = "Ok"
                            THEN Response(request, OK, out.row, "")
                            ELSE StorageError(request, out.err)
    /\ pc' = [pc EXCEPT ![r] = "idle"]
    /\ id' = [id EXCEPT ![r] = 0]
    /\ payload' = [payload EXCEPT ![r] = NoPayload]
    /\ contact' = [contact EXCEPT ![r] = None]
    /\ UNCHANGED <<clock, nreq>>

\* GET /contacts/search?phone=X
search_contact_by_phone(r, query) ==
    /\ Accept(r)
    /\ LET request == Request("search", 0,
                              [NoPayload EXCEPT !.phone = Some(query.phone)])
       IN \E out \in FetchAll(Orderings(SelectByPhone(contacts, query.phone))) :
             reply' = IF out.err = "Ok"
                         THEN Response(request, OK, out.rows, "")
                         ELSE StorageError(request, out.err)
    /\ UNCHANGED <<contacts, clock, pc, id, payload, contact>>

ListStep == \E r \in Tasks : list_contacts(r)
CreateStep == \E r \in Tasks : \E p \in CreateContact : create_contact(r, p)
UpdateReadStep ==
    \E r \in Tasks : \E i \in Uuids : \E p \in UpdateContact :
        update_contact_read(r, i, p)
UpdateWriteStep == \E r \in Tasks : update_contact_write(r)
SearchStep ==
    \E r \in Tasks : \E query \in SearchQuery : search_contact_by_phone(r, query)

Next ==
    \/ Tick
    \/ ListStep
    \/ CreateStep
    \/ UpdateReadStep
    \/ UpdateWriteStep
    \/ SearchStep

Spec == Init /\ [][Next]_vars

\* ------------------------------------------------------------- properties
Fields == {"first_name", "last_name", "phone"}

\* the fields a request body supplies
Supplied(p) == {f \in Fields : p[f] # None}

\* the texts a failed statement puts in a 500 response
StorageTexts == {to_string(e) : e \in TransientErrors \cup {"Database", "RowNotFound"}}
TransientTexts == {to_string(e) : e \in TransientErrors}

\* task r is between the SELECT and the UPDATE of an update, and a field its
\* request does not supply is stored with another value than the one it read
Stale(r) ==
    /\ pc[r] = "write"
    /\ \E row \in SelectById(contacts, id[r]) :
          \E f \in Fields \ Supplied(payload[r]) : row[f] # contact[r][1][f]

\* a step in which a handler of one statement, or the SELECT of an Update that
\* fails, answers a request to handler op
Answers(op) == nreq' # nreq /\ pc' = pc /\ reply'.req.op = op

\* a step in which the SELECT of task r's Update returns the contact
ReadStep(r) == pc[r] = "idle" /\ pc'[r] = "write"

\* a step in which the UPDATE of task r's Update runs and r answers
WriteStep(r) == pc[r] = "write" /\ pc'[r] = "idle"

\* the merge of update_contact: the task's contact is the row read, with the
\* supplied fields replaced by the supplied values
ReadStepMerges(r) ==
    ReadStep(r) =>
        \E row \in SelectById(contacts, id'[r]) :
            LET c == contact'[r][1]
                p == payload'[r]
            IN /\ c.id = row.id
               /\ c.created_at = row.created_at
               /\ c.updated_at = row.updated_at
               /\ \A f \in Fields :
                     c[f] = IF p[f] # None THEN p[f][1] ELSE row[f]

\* the effect of a successful UPDATE on the fields and on created_at
WriteStepStores(r) ==
    (WriteStep(r) /\ reply'.status = OK) =>
        LET c == contact[r][1]
            after == reply'.body[1]
        IN /\ after \in contacts'
           /\ after.id = id[r]
           /\ \A f \in Supplied(payload[r]) : after[f] = payload[r][f][1]
           /\ \A f \in Fields : after[f] = c[f]
           /\ after.created_at = c.created_at

\* C1 as stated: a successful Update keeps the non-supplied fields at the
\* values they had when the Update read the contact, stores the supplied
\* values, keeps created_at and makes updated_at strictly greater than the
\* value it had before.
C1_UpdateStrictlyAdvances ==
    [][\A r \in Tasks :
          /\ ReadStepMerges(r)
          /\ WriteStepStores(r)
          /\ (WriteStep(r) /\ reply'.status = OK) =>
                reply'.body[1].updated_at > contact[r][1].updated_at]_vars

\* C1 amended: a successful Update keeps the non-supplied fields at the
\* values they had when the Update read the contact, stores the supplied
\* values, keeps created_at and sets updated_at to the reading of the database
\* clock at the write, which is never less than the updated_at the Update
\* read: greater if the clock has advanced since, equal if it has not.
C1_UpdateFrame ==
    [][\A r \in Tasks :
          /\ ReadStepMerges(r)
          /\ WriteStepStores(r)
          /\ (WriteStep(r) /\ reply'.status = OK) =>
                /\ reply'.body[1].updated_at = clock
                /\ reply'.body[1].updated_at >= contact[r][1].updated_at]_vars

\* an Update of the phone alone has succeeded: the names are as stored before,
\* the phone is the supplied one, updated_at has moved past created_at
C1_Witness ==
    /\ reply.req.op = "update"
    /\ reply.status = OK
    /\ Supplied(reply.req) = {"phone"}
    /\ reply.body[1] \in contacts
    /\ reply.body[1].phone = reply.req.phone[1]
    /\ reply.body[1].first_name = <<1>>
    /\ reply.body[1].updated_at > reply.body[1].created_at

\* C2: an Update of an id that no stored contact has, whose SELECT executes,
\* answers 404, is over with that answer, and the table is as before; the only
\* other answer is the 500 of a SELECT that failed to execute.
C2_UpdateMissingIsNotFound ==
    [][/\ \A r \in Tasks : ReadStep(r) => SelectById(contacts, id'[r]) # {}
       /\ (Answers("update") /\ SelectById(contacts, reply'.req.id) = {}) =>
              /\ contacts' = contacts
              /\ contact' = contact
              /\ \/ reply'.status = NOT_FOUND
                 \/ /\ reply'.status = INTERNAL_SERVER_ERROR
                    /\ reply'.message \in TransientTexts]_vars

\* a 404 has answered an Update whose id is not stored
C2_Witness ==
    /\ reply.req.op = "update"
    /\ reply.status = NOT_FOUND
    /\ SelectById(contacts, reply.req.id) = {}
    /\ \A r \in Tasks : pc[r] = "idle"

\* C3: the UPDATE of an Update whose read is stale (another Update wrote a
\* field it does not supply after it read) succeeds unless the statement
\* fails to execute, and stores all three fields as the task holds them, so
\* the other Update's value of that field is overwritten.
C3_StaleWriteOverwrites ==
    [][\A r \in Tasks :
          (Stale(r) /\ WriteStep(r) /\ reply'.message \notin TransientTexts) =>
              /\ reply'.status = OK
              /\ \A row \in SelectById(contacts', id[r]) :
                    \A f \in Fields : row[f] = contact[r][1][f]
              /\ \E row \in SelectById(contacts, id[r]) :
                    \E f \in Fields \ Supplied(payload[r]) :
                       \A after \in SelectById(contacts', id[r]) :
                          after[f] # row[f]]_vars

\* a second Update has answered 200 and its phone is stored, between the read
\* and the write of a first Update of the same contact that supplies no phone
\* and holds the phone it read
C3_Witness ==
    \E r \in Tasks :
        /\ Stale(r)
        /\ payload[r].phone = None
        /\ reply.req.op = "update"
        /\ reply.req.id = id[r]
        /\ reply.status = OK
        /\ reply.req.phone # None
        /\ reply.body[1] \in contacts
        /\ reply.body[1].phone = reply.req.phone[1]
        /\ contact[r][1].phone # reply.body[1].phone

\* C4: every stored contact has updated_at >= created_at.
C4_UpdatedNotBeforeCreated ==
    \A row \in contacts : row.updated_at >= row.created_at

\* a contact has been updated after the clock moved past its creation
C4_Witness ==
    \E row \in contacts : row.updated_at > row.created_at

\* C5: a Create that succeeds answers 201 with one new contact: it carries
\* the three values of the request, an id no stored contact has, and
\* created_at = updated_at; the stored contacts are otherwise as before, and
\* every List of the table contains the new contact exactly once.
C5_CreateAddsOne ==
    [][(Answers("create") /\ reply'.status # INTERNAL_SERVER_ERROR) =>
              /\ reply'.status = CREATED
              /\ Len(reply'.body) = 1
              /\ LET new == reply'.body[1]
                 IN /\ Some(new.first_name) = reply'.req.first_name
                    /\ Some(new.last_name) = reply'.req.last_name
                    /\ Some(new.phone) = reply'.req.phone
                    /\ new.created_at = new.updated_at
                    /\ \A row \in contacts : row.id # new.id
                    /\ contacts' = contacts \cup {new}
                    /\ Cardinality(contacts') = Cardinality(contacts) + 1
                    /\ \A s \in SelectAllOrdered(contacts') :
                          Cardinality({k \in DOMAIN s : s[k].id = new.id}) = 1]_vars

\* a Create has answered 201 next to an older contact, and its record is stored
C5_Witness ==
    /\ reply.req.op = "create"
    /\ reply.status = CREATED
    /\ reply.body[1] \in contacts
    /\ Cardinality(contacts) = 2

RECURSIVE LexLeq(_, _)
\* a <= b in the lexicographic order of texts
LexLeq(a, b) ==
    IF a = <<>> THEN TRUE
    ELSE IF b = <<>> THEN FALSE
    ELSE IF a[1] # b[1] THEN a[1] < b[1]
    ELSE LexLeq(Tail(a), Tail(b))

\* (a.first_name, a.last_name) <= (b.first_name, b.last_name)
NamePairLeq(a, b) ==
    IF a.first_name # b.first_name
        THEN LexLeq(a.first_name, b.first_name)
        ELSE LexLeq(a.last_name, b.last_name)

\* C6: a List that succeeds returns every stored contact exactly once, and
\* any two adjacent records are in ascending order of (first_name, last_name).
C6_ListSorted ==
    [][(Answers("list") /\ reply'.status = OK) =>
              /\ Len(reply'.body) = Cardinality(contacts)
              /\ \A row \in contacts :
                    Cardinality({k \in DOMAIN reply'.body : reply'.body[k] = row}) = 1
              /\ \A k \in 1..(Len(reply'.body) - 1) :
                    NamePairLeq(reply'.body[k], reply'.body[k + 1])]_vars

\* a List has returned two contacts with the same first name and different
\* last names
C6_Witness ==
    /\ reply.req.op = "list"
    /\ reply.status = OK
    /\ Len(reply.body) = 2
    /\ reply.body[1].first_name = reply.body[2].first_name
    /\ reply.body[1].last_name # reply.body[2].last_name

\* C7: a Search that succeeds returns exactly the stored contacts whose phone
\* equals the phone of the query, each once; a Search answers 200 also when
\* no contact matches, with an empty list, and otherwise only the 500 of a
\* statement that failed to execute.
C7_SearchExact ==
    [][Answers("search") =>
          LET matching == {row \in contacts : Some(row.phone) = reply'.req.phone}
          IN /\ reply'.status = OK \/ (reply'.status = INTERNAL_SERVER_ERROR
                                       /\ reply'.message \in TransientTexts)
             /\ reply'.status = OK =>
                   /\ {reply'.body[k] : k \in DOMAIN reply'.body} = matching
                   /\ Len(reply'.body) = Cardinality(matching)]_vars

\* a Search has answered 200 with an empty list while contacts with another
\* phone, of which the phone sought is a prefix, are stored
C7_Witness ==
    /\ reply.req.op = "search"
    /\ reply.status = OK
    /\ reply.body = <<>>
    /\ reply.req.phone = Some(<<5>>)
    /\ \E row \in contacts : row.phone = <<5, 6>>

\* C8 as stated: no contact is ever removed, its id and created_at never
\* change, no two stored contacts share an id, and the UPDATE of an Update
\* changes only updated_at and the fields its request supplies.
C8_UpdateChangesOnlySupplied ==
    [][/\ \A row \in contacts :
             \E after \in contacts' :
                after.id = row.id /\ after.created_at = row.created_at
       /\ \A x, y \in contacts' : x.id = y.id => x = y
       /\ \A r \in Tasks :
             WriteStep(r) =>
                \A row \in contacts : \A after \in SelectById(contacts', row.id) :
                   \A f \in Fields \ Supplied(payload[r]) : after[f] = row[f]]_vars

\* a step in which a handler sends its response
Responds ==
    \/ nreq' # nreq /\ pc' = pc
    \/ \E r \in Tasks : WriteStep(r)

\* C9: a response is a success (200, 201), a 404 or a 500.  A 404 comes only
\* from the SELECT of an Update that finds no row for the id; every other
\* failed statement, in any handler and in either statement of Update, gives
\* a 500 with the text of the error.  A failed request leaves the table as it
\* was and carries no rows.
C9_ErrorOutcomes ==
    [][Responds =>
          /\ reply'.status \in {OK, CREATED, NOT_FOUND, INTERNAL_SERVER_ERROR}
          /\ reply'.status = NOT_FOUND =>
                /\ reply'.req.op = "update"
                /\ nreq' # nreq
                /\ SelectById(contacts, reply'.req.id) = {}
                /\ reply'.message = "Contact not found"
          /\ reply'.status = INTERNAL_SERVER_ERROR =>
                /\ reply'.req.op \in {"list", "create", "search", "update"}
                /\ reply'.message \in StorageTexts
          /\ reply'.status \in {NOT_FOUND, INTERNAL_SERVER_ERROR} =>
                /\ contacts' = contacts
                /\ reply'.body = <<>>
          /\ reply'.status \in {OK, CREATED} => reply'.message = ""
          /\ reply'.status = CREATED <=> (reply'.req.op = "create"
                                          /\ reply'.message = "")]_vars

\* an Update of the phone of a stored contact has answered 500 and the
\* contact is stored with the phone it had
C9_Witness ==
    /\ reply.req.op = "update"
    /\ reply.status = INTERNAL_SERVER_ERROR
    /\ reply.req.phone = Some(<<5, 6>>)
    /\ \E row \in SelectById(contacts, reply.req.id) : row.phone = <<5>>
    /\ \A r \in Tasks : pc[r] = "idle"

\* C10: the UPDATE of an Update changes no contact but the one of its id, a
\* Create changes no stored contact, no other step changes the table; so an
\* Update of one contact never makes the read of an Update of another contact
\* stale, and neither does a Create.
C10_NoInterference ==
    [][/\ \A r \in Tasks :
             WriteStep(r) =>
                /\ {row \in contacts : row.id # id[r]}
                      = {row \in contacts' : row.id # id[r]}
                /\ \A t \in Tasks :
                      (pc[t] = "write" /\ id[t] # id[r] /\ ~Stale(t)) => ~Stale(t)'
       /\ Answers("create") =>
             /\ contacts \subseteq contacts'
             /\ \A t \in Tasks : (pc[t] = "write" /\ ~Stale(t)) => ~Stale(t)'
       /\ (~Answers("create") /\ \A r \in Tasks : ~WriteStep(r))
             => contacts' = contacts]_vars

\* an Update of one contact has answered 200 and changed it while an Update of
\* another contact is between its read and its write, and the read of that
\* one is not stale
C10_Witness ==
    \E r \in Tasks :
        /\ pc[r] = "write"
        /\ ~Stale(r)
        /\ reply.req.op = "update"
        /\ reply.status = OK
        /\ reply.req.id # id[r]
        /\ Supplied(reply.req) # {}
        /\ Supplied(payload[r]) # Fields
        /\ reply.body[1] \in contacts

====
